---- MODULE Spec2Model ----
(***************************************************************************)
(* A* search over the tangent points of a column of circles                *)
(* (src/Algorithm.py) and the caller that runs it from both roots and      *)
(* picks a path (src/Main.py).                                             *)
(*                                                                         *)
(* Numbers.  The program computes with Python floats.  The circle lists of *)
(* this model have integer coordinates and are restricted (Admissible) to  *)
(* those where every tangent-point distance the search can compute is the  *)
(* root of a perfect square, so that math.sqrt, the sums of distances and  *)
(* the comparisons of f are exact and the integers of the model are the    *)
(* values the program holds.                                               *)
(*                                                                         *)
(* None is written <<>>: getPathFromRoot never returns an empty list.      *)
(* AStar.runtime (wall-clock time) is not modelled.                        *)
(***************************************************************************)
EXTENDS Integers, Sequences, FiniteSets

VARIABLES
    circles,      \* the list of circles (x, y, radius) given to main's searches
    nodes,        \* every Node object created so far, by creation order
    root,         \* root[s]: AStar.root of aStarLeft ("L") / aStarRight ("R")
    open,         \* open[s]: AStar.open, a list of Node objects (indices in nodes)
    closed,       \* closed[s]: AStar.closed, a list of (x, y, radius, side)
    total_cost,   \* total_cost[s]: AStar.total_cost
    returned,     \* returned[s]: what search() returned (leftPath / rightPath)
    path,         \* main's local variable path
    searching,    \* the AStar object whose search() main is executing
    pc            \* "generate" | "begin" | "loop" (inside search()) | "select" | "done"

vars == <<circles, nodes, root, open, closed, total_cost, returned, path, searching, pc>>

----------------------------------------------------------------------------
(* Bounds of the model: the circle lists the searches are run on.          *)

MaxCircles == 6
MaxTies == 1

Xs == {0, 8}
Radii == {2, 14, 26}
Gaps == {0, 3, 9, 15, 45}

Sides == <<"L", "R">>
None == <<>>

Abs(a) == IF a < 0 THEN -a ELSE a
Range(s) == {s[i] : i \in 1..Len(s)}

----------------------------------------------------------------------------
(* Node                                                                    *)

\* math.sqrt on a perfect square
Sqrt(dx, dy) == CHOOSE r \in 0..(Abs(dx) + Abs(dy)) : r * r = dx * dx + dy * dy

\* the x coordinate of the point of the circle (x, y, radius) on the given side
TangentX(x, radius, side) == IF side = "L" THEN x - radius ELSE x + radius

\* Node.__distance
Distance(self, other) ==
    LET other_x == TangentX(other.center_coordinate[1], other.radius, other.side)
        other_y == other.center_coordinate[2]
        self_x == TangentX(self.center_coordinate[1], self.radius, self.side)
        self_y == self.center_coordinate[2]
    IN  Sqrt(other_x - self_x, other_y - self_y)

\* a __get_cost that forgets the parent's cost: the last hop only
GetCostLastHop(self, nds) ==
    IF self.parent = 0 THEN 0 ELSE Distance(self, nds[self.parent])

\* Node.__get_cost: self already holds its coordinates and its parent
GetCost(self, nds) ==
    IF self.parent = 0 THEN 0
    ELSE nds[self.parent].cost + Distance(self, nds[self.parent])

\* an __init__ that leaves f at the heuristic, without the cost
NewNodeStaleF(center_coordinate, radius, side, parent, heuristic, isGoal, circleIndex, nds) ==
    LET self == [center_coordinate |-> center_coordinate, radius |-> radius,
                 side |-> side, parent |-> parent, children |-> <<>>,
                 circleIndex |-> circleIndex]
    IN  [center_coordinate |-> center_coordinate, radius |-> radius,
         side |-> side, parent |-> parent, children |-> <<>>,
         circleIndex |-> circleIndex,
         cost |-> GetCost(self, nds), heuristic |-> heuristic, isGoal |-> isGoal,
         f |-> heuristic]

\* Node.__init__.  parent = 0 is None.  circleIndex is not a field of the
\* program's Node: it records which circle the node was created from.
NewNode(center_coordinate, radius, side, parent, heuristic, isGoal, circleIndex, nds) ==
    LET self == [center_coordinate |-> center_coordinate, radius |-> radius,
                 side |-> side, parent |-> parent, children |-> <<>>,
                 circleIndex |-> circleIndex]
        cost == GetCost(self, nds)
    IN  [center_coordinate |-> center_coordinate, radius |-> radius,
         side |-> side, parent |-> parent, children |-> <<>>,
         circleIndex |-> circleIndex,
         cost |-> cost, heuristic |-> heuristic, isGoal |-> isGoal,
         f |-> heuristic + cost]

\* Node.__eq__
NodeEq(self, other) == self.f = other.f

RECURSIVE ParentChain(_, _)
ParentChain(k, nds) ==
    IF k = 0 THEN <<>> ELSE <<k>> \o ParentChain(nds[k].parent, nds)

Reverse(s) == [i \in 1..Len(s) |-> s[Len(s) + 1 - i]]

\* a getPathFromRoot without the final path[::-1]: from the node to the root
GetPathToRoot(k, nds) == ParentChain(k, nds)

\* Node.getPathFromRoot
GetPathFromRoot(k, nds) == Reverse(ParentChain(k, nds))

----------------------------------------------------------------------------
(* getRootNodes, generateChildren                                          *)

\* getRootNodes: isGoal is left at its default, False
GetRootNodes(points) ==
    LET mk(side) == NewNode(<<points[1][1], points[1][2]>>, points[1][3], side, 0,
                            Len(points) - 1, FALSE, 1, <<>>)
    IN  <<mk("L"), mk("R")>>

\* the i at which generateChildren's loop breaks (0: it never does)
NextCircle(node, cs) ==
    LET above == {i \in 1..Len(cs) : cs[i][2] > node.center_coordinate[2]}
    IN  IF above = {} THEN 0 ELSE CHOOSE i \in above : \A j \in above : i <= j

\* generateChildren(node, circles), node being nodes[k]: the nodes afterwards
GenerateChildren(k, cs, nds) ==
    LET i == NextCircle(nds[k], cs)
        mk(side) == NewNode(<<cs[i][1], cs[i][2]>>, cs[i][3], side, k,
                            nds[k].heuristic - 1, i = Len(cs), i, nds)
        n == Len(nds)
    IN  IF i = 0 THEN nds
        ELSE [(nds \o <<mk("L"), mk("R")>>) EXCEPT
                 ![k].children = nds[k].children \o <<n + 1, n + 2>>]

----------------------------------------------------------------------------
(* AStar.search                                                            *)

\* the tuple search() keeps in closed for a node
Identity(node) ==
    <<node.center_coordinate[1], node.center_coordinate[2], node.radius, node.side>>

\* list.sort(key=lambda node: node.f): ascending f, and stable, so that nodes
\* of equal f keep the order they had in the list
SortByF(op, nds) ==
    LET before(m, j) == \/ nds[op[m]].f < nds[op[j]].f
                        \/ nds[op[m]].f = nds[op[j]].f /\ m < j
        rank(j) == Cardinality({m \in 1..Len(op) : before(m, j)})
    IN  [i \in 1..Len(op) |-> op[CHOOSE j \in 1..Len(op) : rank(j) = i - 1]]

\* child in self.open: list membership compares with Node.__eq__
InOpen(child, op, nds) == \E j \in 1..Len(op) : NodeEq(nds[child], nds[op[j]])

\* one pass of the body of "for child in current.children", on st = [nodes, open]
ProcessChild(st, child, current, cl) ==
    IF Identity(st.nodes[child]) \notin Range(cl)
    THEN IF ~InOpen(child, st.open, st.nodes)
         THEN [st EXCEPT !.open = Append(st.open, child)]
         ELSE IF st.nodes[child].cost < st.nodes[current].cost
              THEN [st EXCEPT !.nodes[child].parent = current]
              ELSE st
    ELSE st

RECURSIVE ProcessChildren(_, _, _, _)
ProcessChildren(st, children, current, cl) ==
    IF children = <<>> THEN st
    ELSE ProcessChildren(ProcessChild(st, Head(children), current, cl),
                         Tail(children), current, cl)

----------------------------------------------------------------------------
(* The circle lists                                                         *)

IsSquare(dx, dy) == \E r \in 0..(Abs(dx) + Abs(dy)) : r * r = dx * dx + dy * dy

\* every tangent-point distance from circle c1 to circle c2 above it is exact
ExactHop(c1, c2) ==
    \A s1 \in Range(Sides), s2 \in Range(Sides) :
        IsSquare(TangentX(c1[1], c1[3], s1) - TangentX(c2[1], c2[3], s2), c2[2] - c1[2])

TieCount(cs) == Cardinality({i \in 1..(Len(cs) - 1) : cs[i][2] = cs[i + 1][2]})

\* the circles of cs on the level just below the last circle of cs
LevelBelowLast(cs) ==
    LET below == {i \in 1..Len(cs) : cs[i][2] < cs[Len(cs)][2]}
    IN  {i \in below : \A j \in below : cs[j][2] <= cs[i][2]}

\* the lists of the model: sorted by ascending y, positive radii, and exact
\* distances between the circles of consecutive levels
Admissible(cs) ==
    /\ Len(cs) <= MaxCircles
    /\ TieCount(cs) <= MaxTies
    /\ \A i \in LevelBelowLast(cs) : ExactHop(cs[i], cs[Len(cs)])

----------------------------------------------------------------------------
(* main                                                                    *)

BySide(l, r) == [s \in Range(Sides) |-> IF s = "L" THEN l ELSE r]

\* generateCircles has appended its first circle
Init ==
    /\ circles \in { <<(<<x, 0, r>>)>> : x \in Xs, r \in Radii }
    /\ nodes = <<>>
    /\ root = BySide(0, 0)
    /\ open = BySide(<<>>, <<>>)
    /\ closed = BySide(<<>>, <<>>)
    /\ total_cost = BySide(0, 0)
    /\ returned = BySide(None, None)
    /\ path = <<>>
    /\ searching = "L"
    /\ pc = "generate"

\* generateCircles: one more circle, not below the last one
GenerateCircle ==
    /\ pc = "generate"
    /\ \E x \in Xs, r \in Radii, g \in Gaps :
          LET cs == Append(circles, <<x, circles[Len(circles)][2] + g, r>>)
          IN  Admissible(cs) /\ circles' = cs
    /\ UNCHANGED <<nodes, root, open, closed, total_cost, returned, path, searching, pc>>

\* main up to the first search(): getRootNodes and the two AStar.__init__
GetRoots ==
    /\ pc = "generate"
    /\ nodes' = GetRootNodes(circles)
    /\ root' = BySide(1, 2)
    /\ pc' = "begin"
    /\ UNCHANGED <<circles, open, closed, total_cost, returned, path, searching>>

\* search() returns v: main goes on to the next search, or to the selection
Return(s, v) ==
    /\ returned' = [returned EXCEPT ![s] = v]
    /\ IF s = "L" THEN searching' = "R" /\ pc' = "begin"
                  ELSE searching' = searching /\ pc' = "select"

\* search(): self.open.append(self.root)
SearchBegin ==
    /\ pc = "begin"
    /\ open' = [open EXCEPT ![searching] = Append(@, root[searching])]
    /\ pc' = "loop"
    /\ UNCHANGED <<circles, nodes, root, closed, total_cost, returned, path, searching>>

\* search(): one iteration of "while len(self.open) > 0"
SearchIterate ==
    /\ pc = "loop"
    /\ Len(open[searching]) > 0
    /\ \E sorted \in {SortByF(open[searching], nodes)} :
       \E cl \in {Append(closed[searching], Identity(nodes[Head(sorted)]))} :
       LET s == searching
           current == Head(sorted)
       IN  /\ closed' = [closed EXCEPT ![s] = cl]
           /\ IF nodes[current].isGoal
              THEN /\ total_cost' = [total_cost EXCEPT ![s] = nodes[current].cost]
                   /\ open' = [open EXCEPT ![s] = Tail(sorted)]
                   /\ nodes' = nodes
                   /\ Return(s, GetPathFromRoot(current, nodes))
              ELSE \E nds \in {GenerateChildren(current, circles, nodes)} :
                   \E st \in {ProcessChildren([nodes |-> nds, open |-> Tail(sorted)],
                                             nds[current].children, current, cl)} :
                       /\ nodes' = st.nodes
                       /\ open' = [open EXCEPT ![s] = st.open]
                       /\ UNCHANGED <<total_cost, returned, searching, pc>>
    /\ UNCHANGED <<circles, root, path>>

\* search(): open is empty, "No path found! Returning None."
SearchNotFound ==
    /\ pc = "loop"
    /\ Len(open[searching]) = 0
    /\ Return(searching, None)
    /\ UNCHANGED <<circles, nodes, root, open, closed, total_cost, path>>

\* main: the choice of the path to report
Select ==
    /\ pc = "select"
    /\ path' = IF total_cost["L"] < total_cost["R"] THEN returned["L"] ELSE returned["R"]
    /\ pc' = "done"
    /\ UNCHANGED <<circles, nodes, root, open, closed, total_cost, returned, searching>>

Next == GenerateCircle \/ GetRoots \/ SearchBegin \/ SearchIterate \/ SearchNotFound \/ Select

Spec == Init /\ [][Next]_vars

----------------------------------------------------------------------------
(* Vocabulary of the properties                                             *)

\* search() of the AStar object s has returned
Searched(s) ==
    IF s = "L" THEN searching = "R" \/ pc \in {"select", "done"}
    ELSE pc \in {"select", "done"}

StrictlyAscending(cs) == \A i \in 1..(Len(cs) - 1) : cs[i][2] < cs[i + 1][2]

\* every circle but the last has a later circle strictly above it
EveryCircleHasSuccessor(cs) ==
    \A i \in 1..(Len(cs) - 1) : \E j \in (i + 1)..Len(cs) : cs[j][2] > cs[i][2]

Min(S) == CHOOSE m \in S : \A n \in S : m <= n

\* the distance between the tangent points of two circles
TangentDistance(c1, s1, c2, s2) ==
    Sqrt(TangentX(c1[1], c1[3], s1) - TangentX(c2[1], c2[3], s2), c2[2] - c1[2])

RECURSIVE CheapestTo(_, _, _, _)
\* the least length of a chain of tangent points, one per circle, from the
\* rootSide point of circle 1 to the side point of circle i >= 2
CheapestTo(cs, i, side, rootSide) ==
    IF i = 2 THEN TangentDistance(cs[1], rootSide, cs[2], side)
    ELSE Min({ CheapestTo(cs, i - 1, p, rootSide) + TangentDistance(cs[i - 1], p, cs[i], side) :
               p \in Range(Sides) })

MinCost(cs, rootSide) ==
    IF Len(cs) = 1 THEN 0
    ELSE Min({ CheapestTo(cs, Len(cs), side, rootSide) : side \in Range(Sides) })

RECURSIVE PathLength(_, _)
\* the sum of the distances between the consecutive nodes p[1], ..., p[i]
PathLength(p, i) ==
    IF i <= 1 THEN 0
    ELSE PathLength(p, i - 1) + Distance(nodes[p[i]], nodes[p[i - 1]])

\* the root that node k descends from
RootOf(k) == Head(GetPathFromRoot(k, nodes))

----------------------------------------------------------------------------
(* C1: on a list with strictly ascending y, the path search() returns from  *)
(* a root costs the minimum, over the choices of one side per later circle, *)
(* of the summed tangent-point distances from that root.                    *)
C1_ReturnedCostIsMinimum ==
    \A s \in Range(Sides) :
        (Searched(s) /\ StrictlyAscending(circles) /\ returned[s] # None)
            => total_cost[s] = MinCost(circles, s)

(* C2: on a list of two or more circles, sorted, in which every circle but  *)
(* the last has a later circle strictly above it, search() never returns    *)
(* None.                                                                    *)
C2_NeverNotFound ==
    \A s \in Range(Sides) :
        (Searched(s) /\ Len(circles) >= 2 /\ EveryCircleHasSuccessor(circles))
            => returned[s] # None

\* what search() of s returned is None, or a path from the root to a goal node
ResultWellFormed(s) ==
    \/ returned[s] = None
    \/ /\ Head(returned[s]) = root[s]
       /\ nodes[returned[s][Len(returned[s])]].isGoal

RECURSIVE Pow3(_)
Pow3(n) == IF n <= 0 THEN 1 ELSE 3 * Pow3(n - 1)

RECURSIVE OpenWeight(_)
\* a node weighs 3^(number of circles after its own): more than two children
OpenWeight(op) ==
    IF op = <<>> THEN 0
    ELSE Pow3(Len(circles) - nodes[Head(op)].circleIndex) + OpenWeight(Tail(op))

\* a bound on the steps search() of s has left
StepsLeft(s) ==
    IF Searched(s) THEN 0
    ELSE IF searching = s /\ pc = "loop" THEN 1 + OpenWeight(open[s])
    ELSE 2 + Pow3(Len(circles) - 1)

\* a bound on the steps main has left once the circles are generated
Variant == StepsLeft("L") + StepsLeft("R") + (IF pc = "done" THEN 0 ELSE 1)

(* C3: on a sorted list of two or more circles both searches terminate,     *)
(* each with None or with a path that starts at its root and ends at a goal *)
(* node.  Termination: every step of main from the first search() on        *)
(* lowers the natural number Variant, and the loop of search() has a step   *)
(* whether open is empty or not, so it ends only by returning.              *)
C3_BothSearchesTerminate ==
    /\ [][ (pc # "generate" /\ Len(circles) >= 2) => Variant' < Variant ]_vars
    /\ []( Len(circles) >= 2 =>
             \A s \in Range(Sides) : Searched(s) => ResultWellFormed(s) )

C3_Witness ==
    /\ pc = "done"
    /\ Len(circles) >= 3
    /\ \A s \in Range(Sides) : returned[s] # None /\ Len(returned[s]) >= 3

(* C4: with a single circle each root is a goal node of heuristic 0 and     *)
(* search() returns the one-node path [root], of cost 0, at its first pop.  *)
C4_SingleCircleRootIsGoal ==
    (Len(circles) = 1 /\ pc # "generate") =>
        \A s \in Range(Sides) :
            /\ nodes[root[s]].isGoal
            /\ nodes[root[s]].heuristic = 0
            /\ Searched(s) => /\ returned[s] = <<root[s]>>
                              /\ total_cost[s] = 0
                              /\ Len(closed[s]) = 1
                              /\ nodes[root[s]].children = <<>>

C6_PathCostIsSumOfDistances ==
    \A s \in Range(Sides) :
        (Searched(s) /\ returned[s] # None) =>
            LET p == returned[s]
            IN  /\ \A i \in 1..Len(p) : nodes[p[i]].cost = PathLength(p, i)
                /\ \A i \in 1..(Len(p) - 1) : nodes[p[i]].cost <= nodes[p[i + 1]].cost
                /\ total_cost[s] = PathLength(p, Len(p))

C6_Witness ==
    \E s \in Range(Sides) :
        Searched(s) /\ returned[s] # None /\ Len(returned[s]) >= 4

(* C7: every node created by getRootNodes or generateChildren has for       *)
(* heuristic the index of the last circle minus the index of its own circle *)
(* and is a goal exactly when its circle is the last one.                   *)
C7_HeuristicCountsRemainingCircles ==
    \A k \in 1..Len(nodes) :
        /\ nodes[k].heuristic = Len(circles) - nodes[k].circleIndex
        /\ nodes[k].isGoal <=> (nodes[k].circleIndex = Len(circles))

(* C8: a child generated by an iteration of search(), whose identity is     *)
(* neither in closed nor the identity of a node in open, is in open when    *)
(* the iteration ends.                                                      *)
C8_NewIdentityEntersOpen ==
    [][ pc = "loop" =>
          \A k \in (Len(nodes) + 1)..Len(nodes') :
              ( /\ Identity(nodes'[k]) \notin Range(closed'[searching])
                /\ \A j \in Range(open[searching]) : Identity(nodes[j]) # Identity(nodes'[k]) )
                  => k \in Range(open'[searching]) ]_vars

(* C9: an identity put in closed is final: search() never pops a node of    *)
(* that identity again, so closed holds no identity twice.                  *)
C9_ClosedHoldsNoIdentityTwice ==
    \A s \in Range(Sides) :
        \A i, j \in 1..Len(closed[s]) : i # j => closed[s][i] # closed[s][j]

====
